---- MODULE Spec2Model ----
(***************************************************************************)
(* Model of the course-subscription backend: the subscription routes       *)
(* (backend/src/routes/subscription.js), the Subscription and Course       *)
(* models, and the course routes that change price / publication state.    *)
(*                                                                         *)
(* Granularity.  Node runs one handler turn at a time and handlers         *)
(* interleave at their awaits.  A handler that reads and then writes is    *)
(* two actions: its reads with the checks made on them, and its write with *)
(* the response; between the two it is suspended in a slot of Reqs, so a   *)
(* second request (or a course update) can be served in between.  A        *)
(* handler with one database operation is one action, and so are the       *)
(* course handlers: they read and write the one Course document they name, *)
(* and the subscription handlers only read it.                             *)
(*                                                                         *)
(* last is the request answered by the step just taken and the response    *)
(* sent (NoAnswer when the step sent none).                                *)
(*                                                                         *)
(* Reduction.  A suspended handler has only read the database (every       *)
(* handler writes in its last turn), so every database state is also       *)
(* reached with no handler suspended, and a turn that answers without      *)
(* writing and without suspending depends on the database and its inputs   *)
(* alone.  Such turns are therefore taken only when no handler is          *)
(* suspended (Quiet); turns that suspend or write are taken in any state.  *)
(*                                                                         *)
(* Strings are sequences of one-character strings so that trim and         *)
(* toUpperCase are computed, not assumed.  Prices are integers; the        *)
(* discount fraction is kept in hundredths (0.5 is 50).  PriceDomain holds *)
(* amounts whose discounted value is again an integer, as the IEEE product *)
(* with 0.5 is exact.                                                      *)
(*                                                                         *)
(* Content.  The content routes (backend/src/routes/content.js) are part   *)
(* of the model.  The two reads are split at their awaits (course lookup,  *)
(* subscription lookup, content query); the three writes are one action    *)
(* each.  Spec leaves the content collection empty; ContentSpec runs the   *)
(* content routes together with the course and subscription routes on      *)
(* free courses, with one teacher and one student as creators and one      *)
(* student and one teacher as subscribers, the other users being callers   *)
(* of the content routes.  GuardSpec starts from a database that holds a   *)
(* Course document as the schema admits it, with or without instructor     *)
(* (no route stores a course without one), and runs the guarded writes.    *)
(***************************************************************************)
EXTENDS Integers, Sequences, FiniteSets, TLC

\* ---------------------------------------------------------------- bounds

\* subscription ids that can be handed out (ObjectIds are never reused)
MaxSubs == 2

\* request slots, in the order they are taken
ReqOrder == << "r1", "r2" >>

Reqs == {ReqOrder[i] : i \in 1..Len(ReqOrder)}

Students == {"s1", "s2"}

Teachers == {"t1", "t2"}

Users == Students \cup Teachers

\* Course ids, in the order they are handed out (ObjectIds are never reused)
CourseOrder == << "c1" >>

CourseIds == {CourseOrder[i] : i \in 1..Len(CourseOrder)}

\* CourseContent ids, in the order they are handed out
ContentOrder == << "k1" >>

ContentIds == {ContentOrder[i] : i \in 1..Len(ContentOrder)}

\* a courseId / subscriptionId that fails mongoose.Types.ObjectId.isValid
BadId == "not-an-id"

PriceDomain == {0, 1000}

NoUser == "nobody"

\* ------------------------------------------------------------ JS values

\* an optional string: undefined / null, or a string of characters
Undefined == [defined |-> FALSE, chars |-> <<>>]

Null == [defined |-> FALSE, chars |-> <<>>]

Str(cs) == [defined |-> TRUE, chars |-> cs]

\* an optional number (a body field that may be missing)
NoNum == [defined |-> FALSE, value |-> 0]

Num(n) == [defined |-> TRUE, value |-> n]

\* an optional boolean (a body field that may be missing)
NoBool == [defined |-> FALSE, value |-> FALSE]

Bool(b) == [defined |-> TRUE, value |-> b]

LowerLetters == << "a", "b", "c", "d", "e", "f", "g", "h", "i", "j", "k", "l", "m",
                   "n", "o", "p", "q", "r", "s", "t", "u", "v", "w", "x", "y", "z" >>

UpperLetters == << "A", "B", "C", "D", "E", "F", "G", "H", "I", "J", "K", "L", "M",
                   "N", "O", "P", "Q", "R", "S", "T", "U", "V", "W", "X", "Y", "Z" >>

WhiteSpace == {" ", "\t", "\n"}

\* String.prototype.toUpperCase
toUpperCase(cs) ==
    [i \in 1..Len(cs) |->
        IF \E k \in 1..Len(LowerLetters) : LowerLetters[k] = cs[i]
        THEN UpperLetters[CHOOSE k \in 1..Len(LowerLetters) : LowerLetters[k] = cs[i]]
        ELSE cs[i]]

\* String.prototype.trim / validator.js trim: strip white space at both ends
trim(cs) ==
    LET keep == {i \in 1..Len(cs) : cs[i] \notin WhiteSpace}
    IN  IF keep = {} THEN <<>>
        ELSE LET first == CHOOSE i \in keep : \A j \in keep : i <= j
                 last  == CHOOSE i \in keep : \A j \in keep : j <= i
             IN  SubSeq(cs, first, last)

\* promoCode === undefined, taken for !promoCode
FalsyUndefinedOnly(p) == ~p.defined

\* JS truthiness of an optional string: !promoCode
Falsy(p) == ~p.defined \/ p.chars = <<>>

\* ------------------------------------------------------- promo registry

BFSALE25 == << "B", "F", "S", "A", "L", "E", "2", "5" >>

\* VALID_PROMO_CODES: code -> discount in hundredths
VALID_PROMO_CODES == [code \in {BFSALE25} |-> [discount |-> 50]]

\* VALID_PROMO_CODES[key]: the entry, or undefined
HasPromo(key) == key \in DOMAIN VALID_PROMO_CODES

\* the discount taken off as an amount: course.price - promoConfig.discount
ApplyDiscountAsAmount(price, discount) == price - discount

\* the full price charged: the discount is not applied
ApplyNoDiscount(price, discount) == price

\* course.price * (1 - promoConfig.discount)
ApplyDiscount(price, discount) == (price * (100 - discount)) \div 100

\* body('promoCode').optional().trim().toUpperCase()
SanitizePromoCode(p) == IF ~p.defined THEN p ELSE Str(toUpperCase(trim(p.chars)))

\* promo codes a client sends
PromoInputs ==
    { Undefined,
      Str(<< " " >>),
      Str(<< " ", "b", "f", "s", "a", "l", "e", "2", "5" >>),
      Str(<< "S", "A", "V", "E", "1", "0" >>) }

\* promo codes a client sends to the preview route: those above, and more
PromoProbes ==
    PromoInputs \cup
    { Str(<<>>),
      Str(<< "B", "F", "S", "A", "L", "E", "2", "5" >>),
      Str(<< "b", "f", "S", "a", "l", "E", "2", "5", " ", "\t" >>),
      Str(<< "b", "f", " ", "s", "a", "l", "e", "2", "5" >>),
      Str(<< "B", "F", "S", "A", "L", "E" >>) }

\* ------------------------------------------------------------------ state

VARIABLES
    courses,    \* Course collection: CourseIds -> document
    subs,       \* Subscription collection: set of documents
    nextSubId,  \* next fresh Subscription _id
    contents,   \* CourseContent collection: ContentIds -> document
    pc,         \* per request slot: the await the handler is suspended at
    req,        \* per request slot: the request in flight (caller, params, body)
    loc,        \* per request slot: the handler's local variables
    last        \* the request answered by the last step and the response sent

vars == << courses, subs, nextSubId, contents, pc, req, loc, last >>

\* req.user.role, fixed at registration
role == [u \in Users |-> IF u \in Teachers THEN "teacher" ELSE "student"]

\* a Course document; status tells a never-created id from a deleted one
NoCourse == [status |-> "none", price |-> 0, instructor |-> NoUser, isPublished |-> FALSE]

\* a Subscription document
NoSub == [id |-> 0, userId |-> NoUser, courseId |-> BadId, pricePaid |-> 0,
          promoCodeUsed |-> Null]

\* a CourseContent document; status tells a never-created id from a deleted one
NoContent == [id |-> BadId, status |-> "none", courseId |-> BadId, isPublished |-> FALSE]

\* a request: the route, the caller and the parameters that identify its target
NoReq == [op |-> "none", user |-> NoUser, courseId |-> BadId, promoCode |-> Undefined,
          subscriptionId |-> 0, contentId |-> BadId]

\* the locals of a handler that live across an await: those of POST
\* /api/subscribe (price, pricePaid, promoCodeUsed) and those of the content
\* reads (isOwner, isEnrolled, content)
NoLoc == [price |-> 0, pricePaid |-> 0, promoCodeUsed |-> Null,
          isOwner |-> FALSE, isEnrolled |-> FALSE, content |-> NoContent]

\* a response: status, the outcome it stands for, the source line of the
\* return statement that sent it, and the data fields
NoResp == [status |-> 0, kind |-> "none", line |-> 0, subscriptionId |-> 0,
           originalPrice |-> 0, pricePaid |-> 0, discount |-> 0, promoCodeUsed |-> Null,
           isSubscribed |-> FALSE, isOwner |-> FALSE, data |-> {}]

NoAnswer == [req |-> NoReq, resp |-> NoResp]

Init ==
    /\ courses = [c \in CourseIds |-> NoCourse]
    /\ subs = {}
    /\ nextSubId = 1
    /\ contents = [k \in ContentIds |-> NoContent]
    /\ pc = [r \in Reqs |-> "idle"]
    /\ req = [r \in Reqs |-> NoReq]
    /\ loc = [r \in Reqs |-> NoLoc]
    /\ last = NoAnswer

\* --------------------------------------------------------------- helpers

\* Course.findById(id): the live document, or null (status other than "live")
findById(id) == IF id \in CourseIds /\ courses[id].status = "live" THEN courses[id] ELSE NoCourse

\* Subscription.findById(id): the document, or null (id 0)
findSubById(id) ==
    IF \E row \in subs : row.id = id THEN CHOOSE row \in subs : row.id = id ELSE NoSub

\* a lookup whose promise is used without await: always truthy
isUserSubscribedNotAwaited(userId, courseId) == TRUE

\* a lookup that leaves the user out of the query
isUserSubscribedAnyUser(userId, courseId) ==
    \E row \in subs : row.courseId = courseId

\* subscriptionSchema.statics.isUserSubscribed
isUserSubscribed(userId, courseId) ==
    \E row \in subs : row.userId = userId /\ row.courseId = courseId

\* the Subscription collection without its unique index: no insert is refused
NoUniqueIndex(rows, doc) == FALSE

\* the unique compound index { userId: 1, courseId: 1 }: an insert of doc is
\* refused with E11000 when a document with the same key is in the collection
DuplicateKey(rows, doc) ==
    \E row \in rows : row.userId = doc.userId /\ row.courseId = doc.courseId

\* an error response: res.status(status).json({ success: false, message })
Err(status, kind, line) == [NoResp EXCEPT !.status = status, !.kind = kind, !.line = line]

\* a catch block that does not look at error.code
SubscribeCatchAll500(code) == Err(500, "InternalError", 170)

\* the catch block of POST /api/subscribe
SubscribeCatch(code) ==
    IF code = 11000 THEN Err(409, "AlreadyEnrolled", 164) ELSE Err(500, "InternalError", 170)

\* a role check that lets every caller through
IsTeacherNever(u) == FALSE

\* a role check that turns the learners away instead of the teachers
IsTeacherInverted(u) == role[u] = "student"

\* req.user.role === 'teacher'
IsTeacher(u) == role[u] = "teacher"

\* no handler is suspended
Quiet == \A r \in Reqs : pc[r] = "idle"

\* a new request that suspends is taken by the first free slot
Free(r) ==
    /\ pc[r] = "idle"
    /\ \A i, j \in 1..Len(ReqOrder) : (ReqOrder[j] = r /\ i < j) => pc[ReqOrder[i]] # "idle"

\* a handler answers request rq with rs in its first turn, without writing
Answer(rq, rs) ==
    /\ Quiet
    /\ last' = [req |-> rq, resp |-> rs]
    /\ UNCHANGED << pc, req, loc >>

\* a handler writes and answers request rq with rs in its first turn
AnswerWrite(rq, rs) ==
    /\ last' = [req |-> rq, resp |-> rs]
    /\ UNCHANGED << pc, req, loc >>

\* the handler of slot r answers rs and ends
Reply(r, rs) ==
    /\ last' = [req |-> req[r], resp |-> rs]
    /\ pc' = [pc EXCEPT ![r] = "idle"]
    /\ req' = [req EXCEPT ![r] = NoReq]
    /\ loc' = [loc EXCEPT ![r] = NoLoc]

\* the handler of slot r, serving rq, suspends at the await named at, with locals l
Await(r, rq, at, l) ==
    /\ Free(r)
    /\ pc' = [pc EXCEPT ![r] = at]
    /\ req' = [req EXCEPT ![r] = rq]
    /\ loc' = [loc EXCEPT ![r] = l]
    /\ last' = NoAnswer

\* ------------------------------------------------- POST /api/subscribe

\* a published check that lets every course through
UnavailableNever(course) == FALSE

\* !course.isPublished
Unavailable(course) == ~course.isPublished

\* a price calculation that charges the full price when no promo code is sent
PricingPromoOptional(price, promoCode) ==
    IF price = 0 \/ Falsy(promoCode)
    THEN [resp |-> NoResp, pricePaid |-> price, promoCodeUsed |-> Null]
    ELSE IF ~HasPromo(toUpperCase(promoCode.chars))
    THEN [resp |-> Err(400, "InvalidPromoCode", 122),
          pricePaid |-> price, promoCodeUsed |-> Null]
    ELSE [resp |-> NoResp,
          pricePaid |-> (price * (100 - VALID_PROMO_CODES[toUpperCase(promoCode.chars)].discount))
                           \div 100,
          promoCodeUsed |-> Str(toUpperCase(promoCode.chars))]

\* a price calculation that records the promo code sent for a free course
PricingKeepsPromo(price, promoCode) ==
    IF price = 0
    THEN [resp |-> NoResp, pricePaid |-> 0,
          promoCodeUsed |-> IF Falsy(promoCode) THEN Null
                            ELSE Str(toUpperCase(promoCode.chars))]
    ELSE IF Falsy(promoCode)
    THEN [resp |-> [Err(400, "PromoRequired", 110) EXCEPT !.originalPrice = price],
          pricePaid |-> price, promoCodeUsed |-> Null]
    ELSE IF ~HasPromo(toUpperCase(promoCode.chars))
    THEN [resp |-> Err(400, "InvalidPromoCode", 122),
          pricePaid |-> price, promoCodeUsed |-> Null]
    ELSE [resp |-> NoResp,
          pricePaid |-> (price * (100 - VALID_PROMO_CODES[toUpperCase(promoCode.chars)].discount))
                           \div 100,
          promoCodeUsed |-> Str(toUpperCase(promoCode.chars))]

\* a price calculation that asks for a promo code before it looks at the price
PricingPromoFirst(price, promoCode) ==
    IF Falsy(promoCode)
    THEN [resp |-> [Err(400, "PromoRequired", 110) EXCEPT !.originalPrice = price],
          pricePaid |-> price, promoCodeUsed |-> Null]
    ELSE IF ~HasPromo(toUpperCase(promoCode.chars))
    THEN [resp |-> Err(400, "InvalidPromoCode", 122),
          pricePaid |-> price, promoCodeUsed |-> Null]
    ELSE [resp |-> NoResp,
          pricePaid |-> (price * (100 - VALID_PROMO_CODES[toUpperCase(promoCode.chars)].discount))
                           \div 100,
          promoCodeUsed |-> IF price = 0 THEN Null ELSE Str(toUpperCase(promoCode.chars))]

\* Step 3 of the handler: the price calculation.  The response sent when the
\* promo code is refused, or NoResp with the price to pay and the code used.
Pricing(price, promoCode) ==
    IF price = 0
    THEN [resp |-> NoResp, pricePaid |-> 0, promoCodeUsed |-> Null]
    ELSE IF Falsy(promoCode)
    THEN [resp |-> [Err(400, "PromoRequired", 110) EXCEPT !.originalPrice = price],
          pricePaid |-> price, promoCodeUsed |-> Null]
    ELSE LET promoCodeUpper == toUpperCase(promoCode.chars) IN
         IF ~HasPromo(promoCodeUpper)
         THEN [resp |-> Err(400, "InvalidPromoCode", 122),
               pricePaid |-> price, promoCodeUsed |-> Null]
         ELSE [resp |-> NoResp,
               pricePaid |-> ApplyDiscount(price, VALID_PROMO_CODES[promoCodeUpper].discount),
               promoCodeUsed |-> Str(promoCodeUpper)]

\* a handler that calculates the price before it looks for a duplicate
SubscribeCheckPricingFirst(r, u, c, p) ==
    /\ UNCHANGED << courses, subs, nextSubId, contents >>
    /\ LET rq == [NoReq EXCEPT !.op = "subscribe", !.user = u, !.courseId = c,
                               !.promoCode = p]
           promoCode == SanitizePromoCode(p)
           course == findById(c)
           pricing == Pricing(course.price, promoCode)
       IN  IF c = BadId THEN Answer(rq, Err(400, "ValidationError", 46))
           ELSE IF IsTeacher(u) THEN Answer(rq, Err(403, "ForbiddenRole", 58))
           ELSE IF course.status # "live" THEN Answer(rq, Err(404, "NotFound", 68))
           ELSE IF Unavailable(course) THEN Answer(rq, Err(400, "CourseUnavailable", 76))
           ELSE IF course.instructor # NoUser /\ course.instructor = u
                THEN Answer(rq, Err(400, "SelfEnrollment", 84))
           ELSE IF pricing.resp # NoResp THEN Answer(rq, pricing.resp)
           ELSE IF isUserSubscribed(u, c) THEN Answer(rq, Err(409, "AlreadyEnrolled", 94))
           ELSE Await(r, rq, "save", [NoLoc EXCEPT !.price = course.price,
                                                   !.pricePaid = pricing.pricePaid,
                                                   !.promoCodeUsed = pricing.promoCodeUsed])

\* validation, role check, Course.findById, Subscription.isUserSubscribed,
\* the checks made on them and the price calculation
SubscribeCheck(r, u, c, p) ==
    /\ UNCHANGED << courses, subs, nextSubId, contents >>
    /\ LET rq == [NoReq EXCEPT !.op = "subscribe", !.user = u, !.courseId = c,
                               !.promoCode = p]
           promoCode == SanitizePromoCode(p)
           course == findById(c)
           pricing == Pricing(course.price, promoCode)
       IN  IF c = BadId THEN Answer(rq, Err(400, "ValidationError", 46))
           ELSE IF IsTeacher(u) THEN Answer(rq, Err(403, "ForbiddenRole", 58))
           ELSE IF course.status # "live" THEN Answer(rq, Err(404, "NotFound", 68))
           ELSE IF Unavailable(course) THEN Answer(rq, Err(400, "CourseUnavailable", 76))
           ELSE IF course.instructor # NoUser /\ course.instructor = u
                THEN Answer(rq, Err(400, "SelfEnrollment", 84))
           ELSE IF isUserSubscribed(u, c) THEN Answer(rq, Err(409, "AlreadyEnrolled", 94))
           ELSE IF pricing.resp # NoResp THEN Answer(rq, pricing.resp)
           ELSE Await(r, rq, "save", [NoLoc EXCEPT !.price = course.price,
                                                   !.pricePaid = pricing.pricePaid,
                                                   !.promoCodeUsed = pricing.promoCodeUsed])

\* the 201 response of POST /api/subscribe
Subscribed(subscription, price) ==
    [NoResp EXCEPT
        !.status = 201, !.kind = "Subscribed", !.line = 145,
        !.subscriptionId = subscription.id,
        !.originalPrice = price,
        !.pricePaid = subscription.pricePaid,
        !.discount = IF price > 0 THEN 100 - (subscription.pricePaid * 100) \div price ELSE 0,
        !.promoCodeUsed = subscription.promoCodeUsed]

\* an insert written as an upsert: a document of the same pair is replaced
SubscribeSaveUpsert(r) ==
    /\ pc[r] = "save"
    /\ req[r].op = "subscribe"
    /\ UNCHANGED << courses, contents >>
    /\ LET subscription == [id |-> nextSubId, userId |-> req[r].user,
                            courseId |-> req[r].courseId,
                            pricePaid |-> loc[r].pricePaid,
                            promoCodeUsed |-> loc[r].promoCodeUsed]
       IN  /\ nextSubId <= MaxSubs
           /\ subs' = {row \in subs : ~(/\ row.userId = subscription.userId
                                          /\ row.courseId = subscription.courseId)}
                          \cup {subscription}
           /\ nextSubId' = nextSubId + 1
           /\ Reply(r, Subscribed(subscription, loc[r].price))

\* subscription.save() under the unique index, and the response
SubscribeSave(r) ==
    /\ pc[r] = "save"
    /\ req[r].op = "subscribe"
    /\ UNCHANGED << courses, contents >>
    /\ LET subscription == [id |-> nextSubId, userId |-> req[r].user,
                            courseId |-> req[r].courseId,
                            pricePaid |-> loc[r].pricePaid,
                            promoCodeUsed |-> loc[r].promoCodeUsed]
       IN  IF DuplicateKey(subs, subscription)
           THEN /\ Reply(r, SubscribeCatch(11000))
                /\ UNCHANGED << subs, nextSubId >>
           ELSE /\ nextSubId <= MaxSubs
                /\ subs' = subs \cup {subscription}
                /\ nextSubId' = nextSubId + 1
                /\ Reply(r, Subscribed(subscription, loc[r].price))

\* ------------------------------- DELETE /api/subscribe/:subscriptionId

\* an ownership check that lets every caller through
NotOwnSubscriptionNever(subscription, u) == FALSE

\* subscription.userId.toString() !== req.user._id.toString()
NotOwnSubscription(subscription, u) == subscription.userId # u

\* removable only when free on both counts: && in place of ||
isFreeCourseBoth(subscription, course) ==
    subscription.pricePaid = 0 /\ (course.status = "live" /\ course.price = 0)

\* every subscription removable: the check left out
isFreeCourseAlways(subscription, course) == TRUE

\* subscription.pricePaid === 0 || subscription.pricePaid === undefined ||
\* (subscription.courseId && subscription.courseId.price === 0)
isFreeCourse(subscription, course) ==
    subscription.pricePaid = 0 \/ (course.status = "live" /\ course.price = 0)

\* validation, role check, Subscription.findById with populate('courseId'),
\* the ownership check and isFreeCourse
UnsubscribeCheck(r, u, sid) ==
    /\ UNCHANGED << courses, subs, nextSubId, contents >>
    /\ LET rq == [NoReq EXCEPT !.op = "unsubscribe", !.user = u, !.subscriptionId = sid]
           subscription == findSubById(sid)
           course == findById(subscription.courseId)
       IN  IF sid = 0 THEN Answer(rq, Err(400, "ValidationError", 247))
           ELSE IF IsTeacher(u) THEN Answer(rq, Err(403, "ForbiddenRole", 255))
           ELSE IF subscription.id = 0 THEN Answer(rq, Err(404, "NotFound", 265))
           ELSE IF NotOwnSubscription(subscription, u)
                THEN Answer(rq, Err(403, "Forbidden", 273))
           ELSE IF ~isFreeCourse(subscription, course)
                THEN Answer(rq, Err(400, "NotRemovable", 284))
           ELSE Await(r, rq, "findByIdAndDelete", NoLoc)

\* a delete that is never sent to the database: the response alone
UnsubscribeNoDelete(r) ==
    /\ pc[r] = "findByIdAndDelete"
    /\ req[r].op = "unsubscribe"
    /\ UNCHANGED << courses, subs, nextSubId, contents >>
    /\ Reply(r, [NoResp EXCEPT !.status = 200, !.kind = "Removed", !.line = 292,
                               !.subscriptionId = req[r].subscriptionId])

\* Subscription.findByIdAndDelete and the response
UnsubscribeDelete(r) ==
    /\ pc[r] = "findByIdAndDelete"
    /\ req[r].op = "unsubscribe"
    /\ UNCHANGED << courses, nextSubId, contents >>
    /\ subs' = {row \in subs : row.id # req[r].subscriptionId}
    /\ Reply(r, [NoResp EXCEPT !.status = 200, !.kind = "Removed", !.line = 292,
                               !.subscriptionId = req[r].subscriptionId])

\* ------------------------------- GET /api/subscribe/check/:courseId

\* Subscription.isUserSubscribed(userId, courseId) and the response
CheckSubscription(u, c) ==
    /\ UNCHANGED << courses, subs, nextSubId, contents >>
    /\ LET rq == [NoReq EXCEPT !.op = "check", !.user = u, !.courseId = c]
       IN  IF c = BadId THEN Answer(rq, Err(400, "ValidationError", 214))
           ELSE Answer(rq, [NoResp EXCEPT !.status = 200, !.kind = "Checked", !.line = 222,
                                          !.isSubscribed = isUserSubscribed(u, c)])

\* ---------------------------------- POST /api/subscribe/validate-promo

\* a preview that does not trim the code
ValidatePromoNoTrim(promoCode) ==
    IF Falsy(promoCode) THEN Err(400, "MissingCode", 315)
    ELSE LET promoCodeUpper == toUpperCase(promoCode.chars) IN
         IF ~HasPromo(promoCodeUpper) THEN Err(400, "InvalidPromoCode", 325)
         ELSE [NoResp EXCEPT !.status = 200, !.kind = "ValidPromo", !.line = 331,
                             !.promoCodeUsed = Str(promoCodeUpper),
                             !.discount = VALID_PROMO_CODES[promoCodeUpper].discount]

\* the handler of POST /api/subscribe/validate-promo, as a function of the code
ValidatePromoResult(promoCode) ==
    IF Falsy(promoCode) THEN Err(400, "MissingCode", 315)
    ELSE LET promoCodeUpper == trim(toUpperCase(promoCode.chars)) IN
         IF ~HasPromo(promoCodeUpper) THEN Err(400, "InvalidPromoCode", 325)
         ELSE [NoResp EXCEPT !.status = 200, !.kind = "ValidPromo", !.line = 331,
                             !.promoCodeUsed = Str(promoCodeUpper),
                             !.discount = VALID_PROMO_CODES[promoCodeUpper].discount]

ValidatePromo(p) ==
    /\ UNCHANGED << courses, subs, nextSubId, contents >>
    /\ Answer([NoReq EXCEPT !.op = "validatePromo", !.promoCode = p], ValidatePromoResult(p))

\* -------------------------------------------------------- /api/courses

\* middleware teacherOnly
teacherOnly(u) == role[u] = "teacher"

\* body('price').optional().isFloat({ min: 0 })
PriceValid(price) == ~price.defined \/ price.value >= 0

\* POST /api/courses
CreateCourse(u, price) ==
    /\ UNCHANGED << subs, nextSubId, contents >>
    /\ LET rq == [NoReq EXCEPT !.op = "createCourse", !.user = u]
           fresh == {i \in 1..Len(CourseOrder) : courses[CourseOrder[i]].status = "none"}
           id == CourseOrder[CHOOSE i \in fresh : \A j \in fresh : i <= j]
       IN  IF ~teacherOnly(u)
           THEN Answer(rq, Err(403, "ForbiddenRole", 0)) /\ UNCHANGED courses
           ELSE IF ~PriceValid(price)
           THEN Answer(rq, Err(400, "ValidationError", 218)) /\ UNCHANGED courses
           ELSE /\ fresh # {}
                /\ courses' = [courses EXCEPT ![id] =
                                  [status |-> "live",
                                   price |-> IF price.defined THEN price.value ELSE 0,
                                   instructor |-> u,
                                   isPublished |-> TRUE]]
                /\ AnswerWrite([rq EXCEPT !.courseId = id],
                               [NoResp EXCEPT !.status = 201, !.kind = "Created",
                                              !.line = 237])

\* the ownership check of PUT and DELETE /api/courses/:id
NotCourseOwner(course, u) == course.instructor # NoUser /\ course.instructor # u

\* an update that replaces the document by the body, which has no instructor
UpdateCourseReplaces(u, c, price, isPublished) ==
    /\ UNCHANGED << subs, nextSubId, contents >>
    /\ LET rq == [NoReq EXCEPT !.op = "updateCourse", !.user = u, !.courseId = c]
           course == findById(c)
       IN  IF ~teacherOnly(u)
           THEN Answer(rq, Err(403, "ForbiddenRole", 0)) /\ UNCHANGED courses
           ELSE IF c = BadId
           THEN Answer(rq, Err(400, "ValidationError", 282)) /\ UNCHANGED courses
           ELSE IF course.status # "live"
           THEN Answer(rq, Err(404, "NotFound", 291)) /\ UNCHANGED courses
           ELSE IF NotCourseOwner(course, u)
           THEN Answer(rq, Err(403, "Forbidden", 299)) /\ UNCHANGED courses
           ELSE IF ~PriceValid(price)
           THEN Answer(rq, Err(400, "ValidationError", 307)) /\ UNCHANGED courses
           ELSE /\ courses' = [courses EXCEPT ![c] =
                                 [course EXCEPT
                                    !.price = IF price.defined THEN price.value ELSE @,
                                    !.isPublished = IF isPublished.defined
                                                    THEN isPublished.value ELSE @,
                                    !.instructor = NoUser]]
                /\ AnswerWrite(rq, [NoResp EXCEPT !.status = 200, !.kind = "Updated",
                                                  !.line = 324])

\* PUT /api/courses/:id
UpdateCourse(u, c, price, isPublished) ==
    /\ UNCHANGED << subs, nextSubId, contents >>
    /\ LET rq == [NoReq EXCEPT !.op = "updateCourse", !.user = u, !.courseId = c]
           course == findById(c)
       IN  IF ~teacherOnly(u)
           THEN Answer(rq, Err(403, "ForbiddenRole", 0)) /\ UNCHANGED courses
           ELSE IF c = BadId
           THEN Answer(rq, Err(400, "ValidationError", 282)) /\ UNCHANGED courses
           ELSE IF course.status # "live"
           THEN Answer(rq, Err(404, "NotFound", 291)) /\ UNCHANGED courses
           ELSE IF NotCourseOwner(course, u)
           THEN Answer(rq, Err(403, "Forbidden", 299)) /\ UNCHANGED courses
           ELSE IF ~PriceValid(price)
           THEN Answer(rq, Err(400, "ValidationError", 307)) /\ UNCHANGED courses
           ELSE /\ courses' = [courses EXCEPT ![c] =
                                 [course EXCEPT
                                    !.price = IF price.defined THEN price.value ELSE @,
                                    !.isPublished = IF isPublished.defined
                                                    THEN isPublished.value ELSE @]]
                /\ AnswerWrite(rq, [NoResp EXCEPT !.status = 200, !.kind = "Updated",
                                                  !.line = 324])

\* a delete that cascades to the course's subscriptions and content
DeleteCourseCascade(u, c) ==
    /\ UNCHANGED nextSubId
    /\ LET rq == [NoReq EXCEPT !.op = "deleteCourse", !.user = u, !.courseId = c]
           course == findById(c)
       IN  IF ~teacherOnly(u)
           THEN Answer(rq, Err(403, "ForbiddenRole", 0)) /\ UNCHANGED << courses, subs, contents >>
           ELSE IF c = BadId
           THEN Answer(rq, Err(400, "ValidationError", 349))
                   /\ UNCHANGED << courses, subs, contents >>
           ELSE IF course.status # "live"
           THEN Answer(rq, Err(404, "NotFound", 358)) /\ UNCHANGED << courses, subs, contents >>
           ELSE IF NotCourseOwner(course, u)
           THEN Answer(rq, Err(403, "Forbidden", 366)) /\ UNCHANGED << courses, subs, contents >>
           ELSE /\ courses' = [courses EXCEPT ![c] = [NoCourse EXCEPT !.status = "deleted"]]
                /\ subs' = {row \in subs : row.courseId # c}
                /\ contents' = [k \in ContentIds |->
                                   IF contents[k].status = "live" /\ contents[k].courseId = c
                                   THEN [NoContent EXCEPT !.status = "deleted"]
                                   ELSE contents[k]]
                /\ AnswerWrite(rq, [NoResp EXCEPT !.status = 200, !.kind = "Deleted",
                                                  !.line = 374])

\* DELETE /api/courses/:id
DeleteCourse(u, c) ==
    /\ UNCHANGED << subs, nextSubId, contents >>
    /\ LET rq == [NoReq EXCEPT !.op = "deleteCourse", !.user = u, !.courseId = c]
           course == findById(c)
       IN  IF ~teacherOnly(u)
           THEN Answer(rq, Err(403, "ForbiddenRole", 0)) /\ UNCHANGED courses
           ELSE IF c = BadId
           THEN Answer(rq, Err(400, "ValidationError", 349)) /\ UNCHANGED courses
           ELSE IF course.status # "live"
           THEN Answer(rq, Err(404, "NotFound", 358)) /\ UNCHANGED courses
           ELSE IF NotCourseOwner(course, u)
           THEN Answer(rq, Err(403, "Forbidden", 366)) /\ UNCHANGED courses
           ELSE /\ courses' = [courses EXCEPT ![c] = [NoCourse EXCEPT !.status = "deleted"]]
                /\ AnswerWrite(rq, [NoResp EXCEPT !.status = 200, !.kind = "Deleted",
                                                  !.line = 374])

\* -------------------------------------------------------- /api/content

\* CourseContent.findById(id): the live document, or null
findContentById(id) ==
    IF id \in ContentIds /\ contents[id].status = "live" THEN contents[id] ELSE NoContent

\* a query that never adds isPublished: true
getCourseContentAll(courseId, includeUnpublished) ==
    {contents[k] : k \in {k \in ContentIds :
                            /\ contents[k].status = "live"
                            /\ contents[k].courseId = courseId}}

\* courseContentSchema.statics.getCourseContent (the order of the list left out)
getCourseContent(courseId, includeUnpublished) ==
    {contents[k] : k \in {k \in ContentIds :
                            /\ contents[k].status = "live"
                            /\ contents[k].courseId = courseId
                            /\ (includeUnpublished \/ contents[k].isPublished)}}

\* course?.instructor?.toString() === req.user._id.toString()
IsOwner(course, u) == course.instructor # NoUser /\ course.instructor = u

\* a list that is served for published courses only
ListContentPublishedOnly(r, u, c) ==
    /\ UNCHANGED << courses, subs, nextSubId, contents >>
    /\ LET rq == [NoReq EXCEPT !.op = "listContent", !.user = u, !.courseId = c]
           course == findById(c)
       IN  IF c = BadId THEN Answer(rq, Err(400, "ValidationError", 21))
           ELSE IF course.status # "live" \/ ~course.isPublished
                THEN Answer(rq, Err(404, "NotFound", 30))
           ELSE Await(r, rq, "isUserSubscribed", [NoLoc EXCEPT !.isOwner = IsOwner(course, u)])

\* GET /api/content/course/:courseId up to its second await: Course.findById
ListContent(r, u, c) ==
    /\ UNCHANGED << courses, subs, nextSubId, contents >>
    /\ LET rq == [NoReq EXCEPT !.op = "listContent", !.user = u, !.courseId = c]
           course == findById(c)
       IN  IF c = BadId THEN Answer(rq, Err(400, "ValidationError", 21))
           ELSE IF course.status # "live" THEN Answer(rq, Err(404, "NotFound", 30))
           ELSE Await(r, rq, "isUserSubscribed", [NoLoc EXCEPT !.isOwner = IsOwner(course, u)])

\* GET /api/content/course/:courseId: Subscription.isUserSubscribed and the
\* authorization decision
ListContentCheck(r) ==
    /\ pc[r] = "isUserSubscribed"
    /\ req[r].op = "listContent"
    /\ UNCHANGED << courses, subs, nextSubId, contents >>
    /\ LET isEnrolled == isUserSubscribed(req[r].user, req[r].courseId)
       IN  IF ~loc[r].isOwner /\ ~isEnrolled
           THEN Reply(r, Err(403, "Forbidden", 43))
           ELSE /\ pc' = [pc EXCEPT ![r] = "getCourseContent"]
                /\ loc' = [loc EXCEPT ![r].isEnrolled = isEnrolled]
                /\ last' = NoAnswer
                /\ UNCHANGED req

\* GET /api/content/course/:courseId: CourseContent.getCourseContent and the
\* response
ListContentGet(r) ==
    /\ pc[r] = "getCourseContent"
    /\ UNCHANGED << courses, subs, nextSubId, contents >>
    /\ Reply(r, [NoResp EXCEPT !.status = 200, !.kind = "Content", !.line = 52,
                               !.isOwner = loc[r].isOwner,
                               !.data = getCourseContent(req[r].courseId, loc[r].isOwner)])

\* GET /api/content/:id up to its second await: CourseContent.findById
GetContent(r, u, k) ==
    /\ UNCHANGED << courses, subs, nextSubId, contents >>
    /\ LET rq == [NoReq EXCEPT !.op = "getContent", !.user = u, !.contentId = k]
           content == findContentById(k)
       IN  IF k = BadId THEN Answer(rq, Err(400, "ValidationError", 77))
           ELSE IF content.status # "live" THEN Answer(rq, Err(404, "NotFound", 85))
           ELSE Await(r, [rq EXCEPT !.courseId = content.courseId], "Course.findById",
                      [NoLoc EXCEPT !.content = content])

\* GET /api/content/:id: Course.findById(content.courseId)
GetContentCourse(r) ==
    /\ pc[r] = "Course.findById"
    /\ UNCHANGED << courses, subs, nextSubId, contents, req >>
    /\ pc' = [pc EXCEPT ![r] = "isUserSubscribed"]
    /\ loc' = [loc EXCEPT ![r].isOwner = IsOwner(findById(loc[r].content.courseId), req[r].user)]
    /\ last' = NoAnswer

\* GET /api/content/:id: Subscription.isUserSubscribed, the authorization
\* decision, the unpublished check and the response
GetContentCheck(r) ==
    /\ pc[r] = "isUserSubscribed"
    /\ req[r].op = "getContent"
    /\ UNCHANGED << courses, subs, nextSubId, contents >>
    /\ LET isEnrolled == isUserSubscribed(req[r].user, loc[r].content.courseId)
       IN  IF ~loc[r].isOwner /\ ~isEnrolled
           THEN Reply(r, Err(403, "Forbidden", 97))
           ELSE IF ~loc[r].isOwner /\ ~loc[r].content.isPublished
           THEN Reply(r, Err(404, "NotFound", 105))
           ELSE Reply(r, [NoResp EXCEPT !.status = 200, !.kind = "Content", !.line = 111,
                                        !.isOwner = loc[r].isOwner,
                                        !.data = {loc[r].content}])

\* body('type').isIn(['video', 'document', 'note', 'link'])
TypeValid(type) == type \in {"video", "document", "note", "link"}

\* an ownership check that lets every teacher through
NotContentOwnerNever(course, u) == FALSE

\* the ownership check of the content writes:
\* course?.instructor?.toString() !== req.user._id.toString()
NotContentOwner(course, u) == ~IsOwner(course, u)

\* POST /api/content
CreateContent(u, c, type) ==
    /\ UNCHANGED << courses, subs, nextSubId >>
    /\ LET rq == [NoReq EXCEPT !.op = "createContent", !.user = u, !.courseId = c]
           course == findById(c)
           fresh == {i \in 1..Len(ContentOrder) : contents[ContentOrder[i]].status = "none"}
           id == ContentOrder[CHOOSE i \in fresh : \A j \in fresh : i <= j]
       IN  IF ~teacherOnly(u)
           THEN Answer(rq, Err(403, "ForbiddenRole", 0)) /\ UNCHANGED contents
           ELSE IF c = BadId \/ ~TypeValid(type)
           THEN Answer(rq, Err(400, "ValidationError", 158)) /\ UNCHANGED contents
           ELSE IF course.status # "live"
           THEN Answer(rq, Err(404, "NotFound", 170)) /\ UNCHANGED contents
           ELSE IF NotContentOwner(course, u)
           THEN Answer(rq, Err(403, "Forbidden", 177)) /\ UNCHANGED contents
           ELSE /\ fresh # {}
                /\ contents' = [contents EXCEPT ![id] =
                                   [id |-> id, status |-> "live", courseId |-> c,
                                    isPublished |-> TRUE]]
                /\ AnswerWrite([rq EXCEPT !.contentId = id],
                               [NoResp EXCEPT !.status = 201, !.kind = "Created",
                                              !.line = 202])

\* PUT /api/content/:id
UpdateContent(u, k, isPublished) ==
    /\ UNCHANGED << courses, subs, nextSubId >>
    /\ LET rq == [NoReq EXCEPT !.op = "updateContent", !.user = u, !.contentId = k]
           content == findContentById(k)
           course == findById(content.courseId)
       IN  IF ~teacherOnly(u)
           THEN Answer(rq, Err(403, "ForbiddenRole", 0)) /\ UNCHANGED contents
           ELSE IF k = BadId
           THEN Answer(rq, Err(400, "ValidationError", 227)) /\ UNCHANGED contents
           ELSE IF content.status # "live"
           THEN Answer(rq, Err(404, "NotFound", 235)) /\ UNCHANGED contents
           ELSE IF NotContentOwner(course, u)
           THEN Answer(rq, Err(403, "Forbidden", 244)) /\ UNCHANGED contents
           ELSE /\ contents' = [contents EXCEPT ![k].isPublished =
                                   IF isPublished.defined THEN isPublished.value ELSE @]
                /\ AnswerWrite([rq EXCEPT !.courseId = content.courseId],
                               [NoResp EXCEPT !.status = 200, !.kind = "Updated",
                                              !.line = 265])

\* DELETE /api/content/:id
DeleteContent(u, k) ==
    /\ UNCHANGED << courses, subs, nextSubId >>
    /\ LET rq == [NoReq EXCEPT !.op = "deleteContent", !.user = u, !.contentId = k]
           content == findContentById(k)
           course == findById(content.courseId)
       IN  IF ~teacherOnly(u)
           THEN Answer(rq, Err(403, "ForbiddenRole", 0)) /\ UNCHANGED contents
           ELSE IF k = BadId
           THEN Answer(rq, Err(400, "ValidationError", 289)) /\ UNCHANGED contents
           ELSE IF content.status # "live"
           THEN Answer(rq, Err(404, "NotFound", 297)) /\ UNCHANGED contents
           ELSE IF NotContentOwner(course, u)
           THEN Answer(rq, Err(403, "Forbidden", 306)) /\ UNCHANGED contents
           ELSE /\ contents' = [contents EXCEPT ![k] = [NoContent EXCEPT !.status = "deleted"]]
                /\ AnswerWrite([rq EXCEPT !.courseId = content.courseId],
                               [NoResp EXCEPT !.status = 200, !.kind = "Deleted",
                                              !.line = 314])

\* -------------------------------------------------------- specification

\* prices a client sends in a course body: missing, valid, or negative
PriceInputs == {NoNum, Num(-1)} \cup {Num(n) : n \in PriceDomain}

\* { price?, isPublished? } bodies a client sends to PUT /api/courses/:id
UpdateBodies ==
    {<< price, NoBool >> : price \in PriceInputs \ {NoNum}}
       \cup {<< NoNum, Bool(b) >> : b \in BOOLEAN}

Next ==
    \/ \E r \in Reqs, u \in Users, c \in CourseIds \cup {BadId}, p \in PromoInputs :
          SubscribeCheck(r, u, c, p)
    \/ \E r \in Reqs : SubscribeSave(r)
    \/ \E r \in Reqs, u \in Users, sid \in 0..MaxSubs : UnsubscribeCheck(r, u, sid)
    \/ \E r \in Reqs : UnsubscribeDelete(r)
    \/ \E u \in Users, c \in CourseIds \cup {BadId} : CheckSubscription(u, c)
    \/ \E p \in PromoProbes : ValidatePromo(p)
    \/ \E u \in Users, price \in PriceInputs : CreateCourse(u, price)
    \/ \E u \in Users, c \in CourseIds \cup {BadId}, b \in UpdateBodies :
          UpdateCourse(u, c, b[1], b[2])
    \/ \E u \in Users, c \in CourseIds \cup {BadId} : DeleteCourse(u, c)

Spec == Init /\ [][Next]_vars

\* content types a client sends: one the validator takes and one it refuses
TypeInputs == {"video", "podcast"}

\* { isPublished? } bodies a client sends to PUT /api/content/:id
ContentBodies == {NoBool, Bool(TRUE), Bool(FALSE)}

\* the callers of POST /api/courses: one teacher, who owns every course (the
\* other teacher is the instructor who does not own it), and one learner
Creators == {"t1", "s1"}

\* the callers of POST /api/subscribe: one learner, who can be enrolled (the
\* other learner is the one who never is), and one teacher
Subscribers == {"s1", "t1"}

\* The content routes with the routes that change what they read: courses
\* are created free and then published, unpublished or deleted (the content
\* routes never read a price), and learners subscribe and unsubscribe.
ContentNext ==
    \/ \E r \in Reqs, u \in Subscribers, c \in CourseIds :
          SubscribeCheck(r, u, c, Undefined)
    \/ \E r \in Reqs : SubscribeSave(r)
    \/ \E r \in Reqs, u \in Users, sid \in 1..MaxSubs : UnsubscribeCheck(r, u, sid)
    \/ \E r \in Reqs : UnsubscribeDelete(r)
    \/ \E u \in Subscribers, c \in CourseIds : CheckSubscription(u, c)
    \/ \E u \in Creators : CreateCourse(u, Num(0))
    \/ \E u \in Users, c \in CourseIds, b \in BOOLEAN : UpdateCourse(u, c, NoNum, Bool(b))
    \/ \E u \in Users, c \in CourseIds : DeleteCourse(u, c)
    \/ \E r \in Reqs, u \in Users, c \in CourseIds \cup {BadId} : ListContent(r, u, c)
    \/ \E r \in Reqs : ListContentCheck(r)
    \/ \E r \in Reqs : ListContentGet(r)
    \/ \E r \in Reqs, u \in Users, k \in ContentIds \cup {BadId} : GetContent(r, u, k)
    \/ \E r \in Reqs : GetContentCourse(r)
    \/ \E r \in Reqs : GetContentCheck(r)
    \/ \E u \in Users, c \in CourseIds \cup {BadId}, type \in TypeInputs :
          CreateContent(u, c, type)
    \/ \E u \in Users, k \in ContentIds \cup {BadId}, b \in ContentBodies :
          UpdateContent(u, k, b)
    \/ \E u \in Users, k \in ContentIds \cup {BadId} : DeleteContent(u, k)

ContentSpec == Init /\ [][ContentNext]_vars

\* instructor fields a stored Course document can have: courseSchema does not
\* require instructor, so a document can be without one
OwnerInputs == {NoUser, "t1"}

\* a database that holds a Course document as the schema admits it, with or
\* without instructor, and nothing else
GuardInit ==
    /\ courses \in [CourseIds -> {[status |-> "live", price |-> 0, instructor |-> i,
                                    isPublished |-> TRUE] : i \in OwnerInputs}]
    /\ subs = {}
    /\ nextSubId = 1
    /\ contents = [k \in ContentIds |-> NoContent]
    /\ pc = [r \in Reqs |-> "idle"]
    /\ req = [r \in Reqs |-> NoReq]
    /\ loc = [r \in Reqs |-> NoLoc]
    /\ last = NoAnswer

\* the five guarded writes, by every caller
GuardNext ==
    \/ \E u \in Users, c \in CourseIds, b \in BOOLEAN : UpdateCourse(u, c, NoNum, Bool(b))
    \/ \E u \in Users, c \in CourseIds : DeleteCourse(u, c)
    \/ \E u \in Users, c \in CourseIds, type \in TypeInputs : CreateContent(u, c, type)
    \/ \E u \in Users, k \in ContentIds, b \in ContentBodies : UpdateContent(u, k, b)
    \/ \E u \in Users, k \in ContentIds : DeleteContent(u, k)

GuardSpec == GuardInit /\ [][GuardNext]_vars

TypeOK ==
    /\ \A c \in CourseIds : courses[c].status \in {"none", "live", "deleted"}
    /\ \A row \in subs : row.id \in 1..MaxSubs /\ row.userId \in Users
    /\ nextSubId \in 1..(MaxSubs + 1)
    /\ \A k \in ContentIds : contents[k].status \in {"none", "live", "deleted"}
    /\ \A r \in Reqs : pc[r] \in {"idle", "save", "findByIdAndDelete", "isUserSubscribed",
                                   "getCourseContent", "Course.findById"}

\* ------------------------------------------------------------- claims

\* the Subscription documents of a (learner, course) pair
RowsOf(u, c) == {row \in subs : row.userId = u /\ row.courseId = c}

\* the answer of the last step is to request op
Answered(op) == last.req.op = op

\* the promo code of a request as both routes normalise it: trimmed, upper case
Normalized(p) == toUpperCase(trim(p.chars))

\* no promo code: none sent, or nothing but white space
Blank(p) == ~p.defined \/ trim(p.chars) = <<>>

\* C1: in every reachable state the ledger holds at most one Subscription
\* document per (learner, course) pair, also when two subscribe handlers for
\* the pair have both passed the optimistic check before either inserts.
C1_AtMostOnePerPair ==
    \A row1 \in subs, row2 \in subs :
        (row1.userId = row2.userId /\ row1.courseId = row2.courseId) => row1 = row2

\* C1 witness: a handler that passed the optimistic check is suspended before
\* its insert while the pair already has the document of the handler it raced.
C1_Witness ==
    \E r \in Reqs :
        /\ pc[r] = "save"
        /\ Cardinality(RowsOf(req[r].user, req[r].courseId)) = 1

\* C2: a subscribe handler that passed the optimistic check and reaches its
\* insert is answered 201 with exactly one document of the pair stored when the
\* pair has no document yet, and 409 AlreadyEnrolled with the ledger unchanged
\* when the handler it raced has inserted first; never 500.
C2_RaceOutcome ==
    [][\A r \in Reqs :
          (pc[r] = "save" /\ pc'[r] = "idle") =>
             /\ last'.req = req[r]
             /\ last'.resp.status # 500
             /\ IF RowsOf(req[r].user, req[r].courseId) # {}
                THEN /\ last'.resp.status = 409
                     /\ last'.resp.kind = "AlreadyEnrolled"
                     /\ subs' = subs
                ELSE /\ last'.resp.status = 201
                     /\ Cardinality(subs') = Cardinality(subs) + 1
                     /\ \E row \in subs' \ subs :
                           /\ row.userId = req[r].user
                           /\ row.courseId = req[r].courseId
                           /\ row.id = last'.resp.subscriptionId]_vars

\* C2 witness: the loser of a race has been answered 409 from the catch block
\* (line 164) and the winner's document is the pair's only one.
C2_Witness ==
    /\ Answered("subscribe")
    /\ last.resp.status = 409
    /\ last.resp.line = 164
    /\ Cardinality(RowsOf(last.req.user, last.req.courseId)) = 1

\* C3: a subscribe that succeeds on a course read with price 0 stores
\* pricePaid 0 and promoCodeUsed null whatever promo code was sent, and no
\* subscribe to a free course is refused for its promo code.
C3_FreeCourse ==
    /\ (Answered("subscribe") /\ last.resp.status = 201 /\ last.resp.originalPrice = 0) =>
          LET row == findSubById(last.resp.subscriptionId) IN
          /\ row.id # 0
          /\ row.pricePaid = 0
          /\ row.promoCodeUsed = Null
          /\ last.resp.pricePaid = 0
          /\ last.resp.promoCodeUsed = Null
    /\ (Answered("subscribe") /\ last.resp.kind \in {"PromoRequired", "InvalidPromoCode"}) =>
          findById(last.req.courseId).price > 0

\* C3 witness: a subscribe to a free course that sent an unknown promo code
\* has succeeded.
C3_Witness ==
    /\ Answered("subscribe")
    /\ last.resp.status = 201
    /\ last.resp.originalPrice = 0
    /\ last.req.promoCode.defined
    /\ ~HasPromo(Normalized(last.req.promoCode))
    /\ ~Blank(last.req.promoCode)

\* the caller of the request answered last is a learner eligible for its
\* course, which is published and paid
EligibleForPaid ==
    LET course == findById(last.req.courseId) IN
    /\ course.status = "live"
    /\ course.isPublished
    /\ course.price > 0
    /\ role[last.req.user] = "student"
    /\ course.instructor # last.req.user
    /\ ~isUserSubscribed(last.req.user, last.req.courseId)

\* C4: on a published paid course, an eligible learner's subscribe without a
\* promo code (none, or only white space) is answered PromoRequired, and with
\* a code that is not a registry key once normalised, InvalidPromoCode.
C4_PromoErrors ==
    (Answered("subscribe") /\ EligibleForPaid) =>
        /\ Blank(last.req.promoCode) =>
              (last.resp.status = 400 /\ last.resp.kind = "PromoRequired"
                 /\ last.resp.originalPrice = findById(last.req.courseId).price)
        /\ (~Blank(last.req.promoCode) /\ ~HasPromo(Normalized(last.req.promoCode))) =>
              (last.resp.status = 400 /\ last.resp.kind = "InvalidPromoCode")

\* C4 witness: an eligible learner has been answered InvalidPromoCode on a
\* published paid course.
C4_Witness ==
    /\ Answered("subscribe")
    /\ EligibleForPaid
    /\ last.resp.kind = "InvalidPromoCode"

\* C5: a subscribe that succeeds on a course read with price > 0 stores
\* pricePaid = price * (1 - discount), the discount being the registry entry
\* of the normalised code, and promoCodeUsed = the normalised code.
C5_DiscountApplied ==
    (Answered("subscribe") /\ last.resp.status = 201 /\ last.resp.originalPrice > 0) =>
        LET row == findSubById(last.resp.subscriptionId)
            key == Normalized(last.req.promoCode)
        IN  /\ row.id # 0
            /\ last.req.promoCode.defined
            /\ HasPromo(key)
            /\ row.pricePaid * 100 =
                  last.resp.originalPrice * (100 - VALID_PROMO_CODES[key].discount)
            /\ row.promoCodeUsed = Str(key)
            /\ last.resp.pricePaid = row.pricePaid
            /\ last.resp.promoCodeUsed = row.promoCodeUsed

\* C5 witness: price 1000 with " bfsale25" gave pricePaid 500 and
\* promoCodeUsed "BFSALE25".
C5_Witness ==
    /\ Answered("subscribe")
    /\ last.resp.status = 201
    /\ last.resp.originalPrice = 1000
    /\ last.req.promoCode = Str(<< " ", "b", "f", "s", "a", "l", "e", "2", "5" >>)
    /\ findSubById(last.resp.subscriptionId).pricePaid = 500
    /\ findSubById(last.resp.subscriptionId).promoCodeUsed = Str(BFSALE25)

\* C6: the preview and the subscription agree on every code.  A code the
\* subscription refuses is refused by the preview; a code the subscription
\* applied is accepted by the preview with the same normalised code and the
\* same discount; and the preview accepts a code exactly when the price
\* calculation of the subscription, run on the sanitised body, accepts it for
\* a paid course, with the same code and the same discount.
C6_PreviewAgrees ==
    /\ (Answered("subscribe") /\ last.resp.kind \in {"PromoRequired", "InvalidPromoCode"}) =>
          ValidatePromoResult(last.req.promoCode).status # 200
    /\ (Answered("subscribe") /\ last.resp.status = 201 /\ last.resp.originalPrice > 0) =>
          LET preview == ValidatePromoResult(last.req.promoCode) IN
          /\ preview.status = 200
          /\ preview.promoCodeUsed = last.resp.promoCodeUsed
          /\ preview.discount = last.resp.discount
    /\ Answered("validatePromo") =>
          \A price \in PriceDomain \ {0} :
             LET pricing == Pricing(price, SanitizePromoCode(last.req.promoCode)) IN
             /\ (last.resp.status = 200) <=> (pricing.resp = NoResp)
             /\ (last.resp.status = 200) =>
                   /\ pricing.promoCodeUsed = last.resp.promoCodeUsed
                   /\ pricing.pricePaid * 100 = price * (100 - last.resp.discount)

\* C6 witness: the preview has accepted " bfsale25", which needs both the trim
\* and the upper-casing to be the registry key.
C6_Witness ==
    /\ Answered("validatePromo")
    /\ last.resp.status = 200
    /\ last.req.promoCode = Str(<< " ", "b", "f", "s", "a", "l", "e", "2", "5" >>)
    /\ last.resp.promoCodeUsed = Str(BFSALE25)

\* C7: a subscribe by a teacher is answered 403 ForbiddenRole for every
\* well-formed course id, existing or not, and every promo code; no teacher's
\* handler reaches the insert and no Subscription document is a teacher's.
C7_TeacherNeverEnrolls ==
    /\ (Answered("subscribe") /\ role[last.req.user] = "teacher") =>
          /\ last.resp.status # 201
          /\ last.req.courseId \in CourseIds =>
                (last.resp.status = 403 /\ last.resp.kind = "ForbiddenRole")
    /\ \A row \in subs : role[row.userId] # "teacher"
    /\ \A r \in Reqs : pc[r] = "save" => role[req[r].user] # "teacher"

\* C7 witness: a teacher who does not own the course has been answered
\* ForbiddenRole on a published paid course, having sent a valid promo code.
C7_Witness ==
    /\ Answered("subscribe")
    /\ role[last.req.user] = "teacher"
    /\ findById(last.req.courseId).status = "live"
    /\ findById(last.req.courseId).isPublished
    /\ findById(last.req.courseId).price > 0
    /\ findById(last.req.courseId).instructor # last.req.user
    /\ HasPromo(Normalized(last.req.promoCode))
    /\ last.resp.kind = "ForbiddenRole"

\* the request answered last came from the owner of its course
ByOwner ==
    /\ findById(last.req.courseId).status = "live"
    /\ findById(last.req.courseId).instructor = last.req.user

\* C8 as stated: a subscribe by the owner of the course is answered
\* SelfEnrollment.
C8_Original ==
    (Answered("subscribe") /\ ByOwner) => last.resp.kind = "SelfEnrollment"

\* C8 as amended: a subscribe by the owner of the course never succeeds and
\* stores nothing.  An owner with the teacher role is answered 403
\* ForbiddenRole, the role check coming before the owner check; SelfEnrollment
\* is the answer to an owner who is not a teacher, on a published course.
C8_OwnerNeverEnrolls ==
    /\ (Answered("subscribe") /\ ByOwner) =>
          /\ last.resp.status # 201
          /\ role[last.req.user] = "teacher" =>
                (last.resp.status = 403 /\ last.resp.kind = "ForbiddenRole")
          /\ (role[last.req.user] # "teacher" /\ findById(last.req.courseId).isPublished) =>
                (last.resp.status = 400 /\ last.resp.kind = "SelfEnrollment")
    /\ \A row \in subs : courses[row.courseId].instructor # row.userId

\* C8 witness: the instructor who owns a published paid course has sent a
\* valid promo code and been answered ForbiddenRole.
C8_Witness ==
    /\ Answered("subscribe")
    /\ ByOwner
    /\ findById(last.req.courseId).isPublished
    /\ findById(last.req.courseId).price > 0
    /\ HasPromo(Normalized(last.req.promoCode))
    /\ last.resp.kind = "ForbiddenRole"

\* the handler of slot r passes the checks of the unsubscribe in this step
PassesUnsubscribe(r) == pc[r] = "idle" /\ pc'[r] = "findByIdAndDelete"

\* the course of a subscription is there and its price is n
CoursePriceIs(subscription, n) ==
    /\ findById(subscription.courseId).status = "live"
    /\ findById(subscription.courseId).price = n

\* C9 as stated: an unsubscribe passes its checks only for a subscription that
\* is free on both counts, pricePaid 0 and no course price above 0.
C9_Original ==
    [][\A r \in Reqs :
          PassesUnsubscribe(r) =>
             LET subscription == findSubById(req'[r].subscriptionId) IN
             /\ subscription.pricePaid = 0
             /\ ~(findById(subscription.courseId).status = "live"
                    /\ findById(subscription.courseId).price > 0)]_vars

\* C9 as amended: an unsubscribe by the owning learner is answered
\* NotRemovable exactly when pricePaid > 0 and the course is gone or its
\* current price is not 0; it passes, and later deletes the document, when
\* pricePaid is 0 or the current price of the course is 0.  Success does not
\* imply pricePaid = 0.  A document is deleted only by a handler that passed.
C9_RemovableIfEitherFree ==
    [][/\ \A r \in Reqs :
             PassesUnsubscribe(r) =>
                LET subscription == findSubById(req'[r].subscriptionId) IN
                /\ subscription.id # 0
                /\ subscription.userId = req'[r].user
                /\ subscription.pricePaid = 0 \/ CoursePriceIs(subscription, 0)
       /\ (last'.req.op = "unsubscribe" /\ last'.resp.line # 292) =>
             LET subscription == findSubById(last'.req.subscriptionId) IN
             (subscription.id # 0 /\ subscription.userId = last'.req.user
                /\ role[last'.req.user] = "student") =>
                /\ last'.resp.status = 400
                /\ last'.resp.kind = "NotRemovable"
                /\ subscription.pricePaid > 0
                /\ ~CoursePriceIs(subscription, 0)
                /\ subs' = subs
       /\ \A row \in subs \ subs' :
             \E r \in Reqs : /\ pc[r] = "findByIdAndDelete"
                             /\ pc'[r] = "idle"
                             /\ req[r].subscriptionId = row.id]_vars

\* C9 witness: the owning learner's unsubscribe has passed its checks for a
\* subscription with pricePaid > 0, the course being free by now.
C9_Witness ==
    \E r \in Reqs :
        /\ pc[r] = "findByIdAndDelete"
        /\ findSubById(req[r].subscriptionId).pricePaid > 0
        /\ findSubById(req[r].subscriptionId).userId = req[r].user

\* C10 as stated: a Subscription document with pricePaid > 0 is in every
\* later state.
C10_Original ==
    [][\A row \in subs : row.pricePaid > 0 => row \in subs']_vars

\* C10 as amended: a Subscription document with pricePaid > 0 is removed by
\* one step only, the delete of an unsubscribe of its own learner, and that
\* unsubscribe passed its checks only if the course was there with price 0
\* when it read it.  Subscribing, course updates and course deletes leave
\* it in place, and so does every unsubscribe while the price is above 0.
C10_PaidRemovedOnlyWhenCourseFree ==
    [][/\ \A row \in subs :
             (row.pricePaid > 0 /\ row \notin subs') =>
                \E r \in Reqs : /\ pc[r] = "findByIdAndDelete"
                                /\ pc'[r] = "idle"
                                /\ req[r].op = "unsubscribe"
                                /\ req[r].subscriptionId = row.id
                                /\ req[r].user = row.userId
       /\ \A r \in Reqs :
             (PassesUnsubscribe(r) /\ findSubById(req'[r].subscriptionId).pricePaid > 0) =>
                CoursePriceIs(findSubById(req'[r].subscriptionId), 0)]_vars

\* C10 witness: a document with pricePaid > 0 is in the ledger right after the
\* owner's course update left the course with price 0.
C10_Witness ==
    /\ Answered("updateCourse")
    /\ last.resp.status = 200
    /\ \E row \in subs : row.pricePaid > 0 /\ CoursePriceIs(row, 0)

\* C11: an unsubscribe by a learner who is not the subscription's learner is
\* answered 403 Forbidden and removes nothing, whatever pricePaid and the
\* course's price are; only the subscription's own learner passes the checks,
\* and only that learner's handler deletes the document.
C11_OtherLearnerForbidden ==
    [][/\ (last'.req.op = "unsubscribe" /\ last'.resp.line # 292) =>
             LET subscription == findSubById(last'.req.subscriptionId) IN
             (subscription.id # 0 /\ role[last'.req.user] = "student"
                /\ subscription.userId # last'.req.user) =>
                /\ last'.resp.status = 403
                /\ last'.resp.kind = "Forbidden"
                /\ subs' = subs
       /\ \A r \in Reqs :
             PassesUnsubscribe(r) =>
                findSubById(req'[r].subscriptionId).userId = req'[r].user
       /\ \A row \in subs \ subs' :
             \E r \in Reqs : /\ pc[r] = "findByIdAndDelete"
                             /\ req[r].subscriptionId = row.id
                             /\ req[r].user = row.userId]_vars

\* C11 witness: another learner has been answered Forbidden for a
\* subscription with pricePaid > 0 on a course whose price is above 0, where
\* the removability check would have refused too; the document is in place.
C11_Witness ==
    /\ Answered("unsubscribe")
    /\ last.resp.kind = "Forbidden"
    /\ role[last.req.user] = "student"
    /\ findSubById(last.req.subscriptionId).id # 0
    /\ findSubById(last.req.subscriptionId).userId # last.req.user
    /\ findSubById(last.req.subscriptionId).pricePaid > 0
    /\ findById(findSubById(last.req.subscriptionId).courseId).price > 0

\* the handler of slot r inserts its Subscription document in this step
Inserts(r) ==
    /\ pc[r] = "save"
    /\ pc'[r] = "idle"
    /\ last'.resp.status = 201

\* the Subscription document a step has inserted
Inserted == CHOOSE row \in subs' \ subs : TRUE

\* C12 as stated: every Subscription document whose course has price 0 now
\* has pricePaid 0 and promoCodeUsed null.
C12_Original ==
    \A row \in subs :
        CoursePriceIs(row, 0) => (row.pricePaid = 0 /\ row.promoCodeUsed = Null)

\* C12 as amended: a Subscription document inserted by a handler that read
\* price 0 has pricePaid 0 and promoCodeUsed null, and no step rewrites a
\* stored document: a step leaves every document as it is, removes it, or
\* inserts a new one.  pricePaid and promoCodeUsed are those of the time of
\* the subscribe, so a document of a course whose price was lowered to 0
\* afterwards keeps pricePaid > 0 and its promo code.
C12_FreeWhenReadFree ==
    [][/\ \A r \in Reqs :
             (Inserts(r) /\ loc[r].price = 0) =>
                /\ subs' \ subs # {}
                /\ Inserted.pricePaid = 0
                /\ Inserted.promoCodeUsed = Null
       /\ \A row \in subs' \ subs :
             \E r \in Reqs : Inserts(r) /\ row.userId = req[r].user
                                        /\ row.courseId = req[r].courseId
       /\ Cardinality(subs' \ subs) <= 1]_vars

\* C12 witness: the course has price 0 and two documents, one inserted before
\* the price was lowered (pricePaid > 0) and one after (pricePaid 0, no code).
C12_Witness ==
    \E row1 \in subs, row2 \in subs :
        /\ row1.courseId = row2.courseId
        /\ CoursePriceIs(row1, 0)
        /\ row1.pricePaid > 0
        /\ row2.pricePaid = 0
        /\ row2.promoCodeUsed = Null

\* the promo code of a document is a registry key and pricePaid is price less
\* the discount of that code
PaidWithPromo(row, price) ==
    /\ row.promoCodeUsed.defined
    /\ HasPromo(row.promoCodeUsed.chars)
    /\ row.pricePaid * 100 =
          price * (100 - VALID_PROMO_CODES[row.promoCodeUsed.chars].discount)

\* C13 as stated: every Subscription document whose course has a price above
\* 0 now carries a promo code that is a registry key and has pricePaid equal
\* to that price less the discount.
C13_Original ==
    \A row \in subs :
        (findById(row.courseId).status = "live" /\ findById(row.courseId).price > 0) =>
            PaidWithPromo(row, findById(row.courseId).price)

\* C13 as amended: a Subscription document inserted by a handler that read a
\* price above 0 carries a promo code that is a registry key and has pricePaid
\* equal to the price read less the discount of that code; in every state a
\* document with pricePaid > 0 carries a registry key, and one without a code
\* has pricePaid 0.  A document inserted while the course was free stays as it
\* is, without a code, after the price is raised above 0.
C13_PromoWhenReadPaid ==
    [][/\ \A r \in Reqs :
             (Inserts(r) /\ loc[r].price > 0) =>
                /\ subs' \ subs # {}
                /\ PaidWithPromo(Inserted, loc[r].price)
       /\ \A row \in subs' :
             /\ row.pricePaid > 0 =>
                   (row.promoCodeUsed.defined /\ HasPromo(row.promoCodeUsed.chars))
             /\ ~row.promoCodeUsed.defined => row.pricePaid = 0]_vars

\* C13 witness: the course has a price above 0 and two documents, one inserted
\* while it was free (no code) and one paid with BFSALE25.
C13_Witness ==
    \E row1 \in subs, row2 \in subs :
        /\ row1.courseId = row2.courseId
        /\ findById(row1.courseId).price > 0
        /\ row1.promoCodeUsed = Null
        /\ row1.pricePaid = 0
        /\ PaidWithPromo(row2, findById(row2.courseId).price)

\* C19: a subscribe by a learner to a course that is there and unpublished
\* when the handler reads it is answered 400 CourseUnavailable, whatever the
\* price, the promo code and the learner's own subscriptions, and stores
\* nothing; a handler goes on to its insert only for a course it read as
\* published.
C19_UnpublishedRefused ==
    [][/\ (last'.req.op = "subscribe" /\ last'.resp.line \notin {145, 164}) =>
             LET course == findById(last'.req.courseId) IN
             (role[last'.req.user] = "student" /\ course.status = "live"
                /\ ~course.isPublished) =>
                /\ last'.resp.status = 400
                /\ last'.resp.kind = "CourseUnavailable"
                /\ subs' = subs
       /\ \A r \in Reqs :
             (pc[r] = "idle" /\ pc'[r] = "save") =>
                /\ findById(req'[r].courseId).status = "live"
                /\ findById(req'[r].courseId).isPublished]_vars

\* C19 witness: a learner who sent a valid promo code has been answered
\* CourseUnavailable on an unpublished course with a price above 0.
C19_Witness ==
    /\ Answered("subscribe")
    /\ last.resp.kind = "CourseUnavailable"
    /\ role[last.req.user] = "student"
    /\ ~findById(last.req.courseId).isPublished
    /\ findById(last.req.courseId).price > 0
    /\ HasPromo(Normalized(last.req.promoCode))

\* C20: the check route answers a well-formed course id with 200 and
\* isSubscribed true exactly when a Subscription document of (caller, course)
\* is in the collection at that step, and the step changes no collection and
\* no handler in flight.
C20_CheckIsExistence ==
    [][last'.req.op = "check" =>
          /\ UNCHANGED << courses, subs, nextSubId, contents, pc, req, loc >>
          /\ last'.req.courseId \in CourseIds =>
                /\ last'.resp.status = 200
                /\ last'.resp.isSubscribed =
                      (RowsOf(last'.req.user, last'.req.courseId) # {})]_vars

\* C20 witness: the check has answered true to the learner who has a document
\* for the course while another learner has none.
C20_Witness ==
    /\ Answered("check")
    /\ last.resp.status = 200
    /\ last.resp.isSubscribed
    /\ RowsOf(last.req.user, last.req.courseId) # {}
    /\ \E u \in Students : RowsOf(u, last.req.courseId) = {}

\* the handler of slot r, a content read, takes its authorization decision in
\* this step
Decides(r) ==
    /\ pc[r] = "isUserSubscribed"
    /\ pc'[r] # "isUserSubscribed"

\* C14: a content read, list or single item, goes past its authorization
\* decision only if the caller was the owner of the course when the handler
\* read the course, or a Subscription document of (caller, course) is in the
\* collection when the handler looks it up; otherwise it is answered 403
\* Forbidden.  Content is sent by 200 responses of reads that went past the
\* decision, and by no other response.
C14_ReadNeedsOwnerOrRow ==
    [][/\ \A r \in Reqs :
             (pc[r] # "isUserSubscribed" /\ pc'[r] = "isUserSubscribed") =>
                loc'[r].isOwner = (/\ findById(req'[r].courseId).status = "live"
                                   /\ findById(req'[r].courseId).instructor = req'[r].user)
       /\ \A r \in Reqs :
             Decides(r) =>
                IF loc[r].isOwner \/ RowsOf(req[r].user, req[r].courseId) # {}
                THEN last'.resp.kind # "Forbidden"
                ELSE /\ last'.req = req[r]
                     /\ last'.resp.status = 403
                     /\ last'.resp.kind = "Forbidden"
                     /\ last'.resp.data = {}
       /\ (last'.req.op \in {"listContent", "getContent"} /\ last'.resp.data # {}) =>
             /\ last'.resp.status = 200
             /\ \E r \in Reqs : /\ req[r] = last'.req
                                /\ pc[r] \in {"isUserSubscribed", "getCourseContent"}
                                /\ pc'[r] = "idle"
                                /\ pc[r] = "getCourseContent" =>
                                      (loc[r].isOwner \/ loc[r].isEnrolled)]_vars

\* C14 witness: a learner without a Subscription document has been answered
\* Forbidden on the list of a course that has a published content record and
\* an enrolled learner.
C14_Witness ==
    /\ Answered("listContent")
    /\ last.resp.kind = "Forbidden"
    /\ role[last.req.user] = "student"
    /\ RowsOf(last.req.user, last.req.courseId) = {}
    /\ \E u \in Students : RowsOf(u, last.req.courseId) # {}
    /\ getCourseContent(last.req.courseId, FALSE) # {}

\* the live CourseContent documents of a course
ContentOf(c) == {contents[k] : k \in {k \in ContentIds : /\ contents[k].status = "live"
                                                         /\ contents[k].courseId = c}}

\* C15: the list sent to a reader who is not the owner is the course's
\* published records and holds no record with isPublished false; the list sent
\* to the owner is all records of the course, drafts included.  The single
\* item is sent to a reader who is not the owner only if it was published
\* when the handler read it, and to the owner whether published or not.
C15_VisibilityFilter ==
    [][/\ \A r \in Reqs :
             (pc[r] = "getCourseContent" /\ pc'[r] = "idle") =>
                /\ last'.resp.status = 200
                /\ last'.resp.data =
                      IF loc[r].isOwner
                      THEN ContentOf(req[r].courseId)
                      ELSE {d \in ContentOf(req[r].courseId) : d.isPublished}
       /\ \A r \in Reqs :
             (Decides(r) /\ req[r].op = "getContent"
                /\ (loc[r].isOwner \/ RowsOf(req[r].user, req[r].courseId) # {})) =>
                IF loc[r].isOwner \/ loc[r].content.isPublished
                THEN last'.resp.status = 200 /\ last'.resp.data = {loc[r].content}
                ELSE last'.resp.status = 404 /\ last'.resp.data = {}
       /\ (last'.req.op \in {"listContent", "getContent"} /\ ~last'.resp.isOwner) =>
             \A d \in last'.resp.data : d.isPublished]_vars

\* C15 witness: an enrolled learner has been sent an empty list for a course
\* whose only record is an unpublished draft.
C15_Witness ==
    /\ Answered("listContent")
    /\ last.resp.status = 200
    /\ ~last.resp.isOwner
    /\ last.resp.data = {}
    /\ \E d \in ContentOf(last.req.courseId) : ~d.isPublished

\* the handler of slot r deletes and answers 200 in this step
Removes(r) ==
    /\ pc[r] = "findByIdAndDelete"
    /\ pc'[r] = "idle"
    /\ last'.resp.status = 200

\* C16: an unsubscribe that is answered 200 leaves no Subscription document of
\* its (learner, course) pair; a pair without a document gets one only by a
\* subscribe of that learner answered 201; and every content read, list or
\* item, by a caller who is not the owner looks the pair up in the collection
\* as it is at that step: with no document there the answer is 403 Forbidden,
\* however the caller's earlier reads were answered.
C16_NoStaleAuthorization ==
    [][/\ \A r \in Reqs :
             Removes(r) =>
                \A row \in subs :
                    row.id = req[r].subscriptionId =>
                        {row2 \in subs' : /\ row2.userId = row.userId
                                          /\ row2.courseId = row.courseId} = {}
       /\ \A u \in Users, c \in CourseIds :
             (RowsOf(u, c) = {} /\ \E row \in subs' : row.userId = u /\ row.courseId = c) =>
                \E r \in Reqs : /\ Inserts(r)
                                /\ req[r].op = "subscribe"
                                /\ req[r].user = u
                                /\ req[r].courseId = c
       /\ \A r \in Reqs :
             (Decides(r) /\ ~loc[r].isOwner /\ RowsOf(req[r].user, req[r].courseId) = {}) =>
                /\ pc'[r] = "idle"
                /\ last'.req = req[r]
                /\ last'.resp.status = 403
                /\ last'.resp.data = {}]_vars

\* C16 witness: a learner who had subscribed and has unsubscribed since (an id
\* was handed out, the pair has no document) has been answered Forbidden on
\* the list of a course with a published record.
C16_Witness ==
    /\ Answered("listContent")
    /\ last.resp.status = 403
    /\ last.req.user \in Subscribers
    /\ role[last.req.user] = "student"
    /\ nextSubId > 1
    /\ subs = {}
    /\ getCourseContent(last.req.courseId, FALSE) # {}

\* C17 as stated: the list read of a learner who has a Subscription document
\* for the course is answered 200, whatever happened to the course.
C17_Original ==
    (Answered("listContent") /\ RowsOf(last.req.user, last.req.courseId) # {}) =>
        last.resp.status = 200

\* C17 as amended: a learner's Subscription document is removed by that
\* learner's own unsubscribe only (course updates, unpublishing and course
\* deletes leave it in place), and while the document is there the learner's
\* list read is never answered Forbidden; it is answered 200 as long as the
\* course is there, published or not, and 404 NotFound once the owner has
\* deleted the course.
C17_DemotedOnlyByCourseDelete ==
    [][/\ \A row \in subs \ subs' :
             \E r \in Reqs : /\ Removes(r)
                             /\ req[r].op = "unsubscribe"
                             /\ req[r].user = row.userId
       /\ \A r \in Reqs :
             (Decides(r) /\ req[r].op = "listContent"
                /\ RowsOf(req[r].user, req[r].courseId) # {}) =>
                pc'[r] = "getCourseContent"
       /\ \A r \in Reqs :
             (pc[r] = "getCourseContent" /\ pc'[r] = "idle") => last'.resp.status = 200
       /\ (last'.req.op = "listContent"
             /\ \E row \in subs : /\ row.userId = last'.req.user
                                  /\ row.courseId = last'.req.courseId) =>
             /\ last'.resp.status \in {200, 404}
             /\ last'.resp.status = 404 => findById(last'.req.courseId).status # "live"]_vars

\* C17 witness: an enrolled learner has been sent the list of a course that
\* the owner has unpublished.
C17_Witness ==
    /\ Answered("listContent")
    /\ last.resp.status = 200
    /\ ~last.resp.isOwner
    /\ RowsOf(last.req.user, last.req.courseId) # {}
    /\ findById(last.req.courseId).status = "live"
    /\ ~findById(last.req.courseId).isPublished

\* the course a CourseContent id belongs to, before or after the step
CourseOfContent(k) ==
    IF contents[k].status = "live" THEN contents[k].courseId ELSE contents'[k].courseId

\* C18: a step changes a Course document only for a request of a teacher who
\* owns it (or who creates it and becomes its owner), and a CourseContent
\* document only for a request of the teacher who owns its course.  A caller
\* who is not the owner of an existing course, another teacher or a learner,
\* is answered 403 by the course and content writes (400 by a content create
\* whose body fails validation) and the documents are unchanged.
C18_WritesByOwnerOnly ==
    [][/\ \A c \in CourseIds :
             courses'[c] # courses[c] =>
                /\ role[last'.req.user] = "teacher"
                /\ last'.req.courseId = c
                /\ last'.resp.status \in {200, 201}
                /\ IF courses[c].status = "live"
                   THEN courses[c].instructor = last'.req.user
                   ELSE courses'[c].instructor = last'.req.user
       /\ \A k \in ContentIds :
             contents'[k] # contents[k] =>
                /\ role[last'.req.user] = "teacher"
                /\ last'.req.contentId = k
                /\ last'.resp.status \in {200, 201}
                /\ courses[CourseOfContent(k)].status = "live"
                /\ courses[CourseOfContent(k)].instructor = last'.req.user
       /\ (/\ last'.req.op \in {"updateCourse", "deleteCourse", "createContent"}
           /\ findById(last'.req.courseId).status = "live"
           /\ findById(last'.req.courseId).instructor # last'.req.user) =>
             /\ last'.resp.status \in
                   (IF last'.req.op = "createContent" THEN {400, 403} ELSE {403})
             /\ UNCHANGED << courses, contents >>
       /\ (/\ last'.req.op \in {"updateContent", "deleteContent"}
           /\ findContentById(last'.req.contentId).status = "live"
           /\ findById(findContentById(last'.req.contentId).courseId).instructor
                 # last'.req.user) =>
             /\ last'.resp.status = 403
             /\ UNCHANGED << courses, contents >>
       /\ (last'.req.op = "createCourse" /\ role[last'.req.user] # "teacher") =>
             /\ last'.resp.status = 403
             /\ UNCHANGED << courses, contents >>]_vars

\* C18 witness: a teacher who does not own the course has been answered
\* Forbidden on the update of one of its content records.
C18_Witness ==
    /\ Answered("updateContent")
    /\ last.resp.status = 403
    /\ last.resp.kind = "Forbidden"
    /\ role[last.req.user] = "teacher"
    /\ findContentById(last.req.contentId).status = "live"
    /\ findById(findContentById(last.req.contentId).courseId).status = "live"
    /\ findById(findContentById(last.req.contentId).courseId).instructor # last.req.user

\* C21 as stated: a subscribe by a learner who has a Subscription document
\* for the course is answered AlreadyEnrolled.
C21_Original ==
    [][(last'.req.op = "subscribe"
          /\ RowsOf(last'.req.user, last'.req.courseId) # {}) =>
          last'.resp.kind = "AlreadyEnrolled"]_vars

\* C21 as amended: a subscribe by a learner who has a Subscription document
\* for the course stores nothing and is never answered PromoRequired or
\* InvalidPromoCode, whatever promo code it sends: it is answered 409
\* AlreadyEnrolled when the course is there and published, the duplicate
\* check coming before the price calculation, 400 CourseUnavailable when the
\* course has been unpublished since, and 404 NotFound when it has been
\* deleted, these two checks coming before the duplicate check.
C21_AlreadyEnrolledBeforePromo ==
    [][(last'.req.op = "subscribe"
          /\ RowsOf(last'.req.user, last'.req.courseId) # {}) =>
          LET course == findById(last'.req.courseId) IN
          /\ subs' = subs
          /\ last'.resp.kind \in {"AlreadyEnrolled", "CourseUnavailable", "NotFound"}
          /\ (course.status = "live" /\ course.isPublished) =>
                (last'.resp.status = 409 /\ last'.resp.kind = "AlreadyEnrolled")
          /\ (last'.resp.line # 164 /\ course.status = "live" /\ ~course.isPublished) =>
                (last'.resp.status = 400 /\ last'.resp.kind = "CourseUnavailable")
          /\ (last'.resp.line # 164 /\ course.status # "live") =>
                (last'.resp.status = 404 /\ last'.resp.kind = "NotFound")]_vars

\* C21 witness: a learner who has a Subscription document for a published
\* course with a price above 0 has subscribed again with a promo code that is
\* not a registry key, and been answered AlreadyEnrolled by the duplicate
\* check (line 94).
C21_Witness ==
    /\ Answered("subscribe")
    /\ last.resp.kind = "AlreadyEnrolled"
    /\ last.resp.line = 94
    /\ findById(last.req.courseId).price > 0
    /\ findById(last.req.courseId).isPublished
    /\ ~Blank(last.req.promoCode)
    /\ ~HasPromo(Normalized(last.req.promoCode))

\* C22: an unsubscribe answered 200 leaves the (learner, course) pair without
\* a Subscription document, so that the check route answers false for it; a
\* subscribe is answered AlreadyEnrolled only when the pair has a document at
\* that step, whatever documents it had before; and a subscribe that reaches
\* its insert while the pair has none is answered 201 and stores one new
\* document for the pair under an id that no document has had.
C22_PairCycle ==
    [][/\ \A r \in Reqs :
             Removes(r) =>
                \A row \in subs :
                    row.id = req[r].subscriptionId =>
                        /\ row.userId = req[r].user
                        /\ ~\E row2 \in subs' : /\ row2.userId = row.userId
                                                 /\ row2.courseId = row.courseId
       /\ (last'.req.op = "subscribe" /\ last'.resp.kind = "AlreadyEnrolled") =>
             RowsOf(last'.req.user, last'.req.courseId) # {}
       /\ \A r \in Reqs :
             (pc[r] = "save" /\ pc'[r] = "idle"
                /\ RowsOf(req[r].user, req[r].courseId) = {}) =>
                /\ last'.resp.status = 201
                /\ \E row \in subs' :
                      /\ subs' = subs \cup {row}
                      /\ row.userId = req[r].user
                      /\ row.courseId = req[r].courseId
                      /\ row.id = last'.resp.subscriptionId
                      /\ row.id = nextSubId
                      /\ nextSubId' > nextSubId
                      /\ \A old \in subs : old.id < row.id
       /\ (last'.req.op = "check" /\ last'.resp.status = 200) =>
             (last'.resp.isSubscribed <=>
                 RowsOf(last'.req.user, last'.req.courseId) # {})]_vars

\* C22 witness: the one learner who subscribes has been answered 201 with the
\* second id handed out, and the document of the first id is gone: that
\* learner had subscribed to the course and unsubscribed before.
C22_Witness ==
    /\ Answered("subscribe")
    /\ last.resp.status = 201
    /\ last.resp.subscriptionId = 2
    /\ last.req.user \in Subscribers
    /\ findSubById(1) = NoSub
    /\ RowsOf(last.req.user, last.req.courseId) = {findSubById(2)}

\* C23: a course delete answered 200 removes the Course document it names
\* and nothing else: every Subscription document and every CourseContent
\* document, those of the deleted course included, is as it was, and so is
\* every other course.  Only such a step removes a Course document.
C23_DeleteDoesNotCascade ==
    [][/\ (last'.req.op = "deleteCourse" /\ last'.resp.status = 200) =>
             /\ courses[last'.req.courseId].status = "live"
             /\ courses'[last'.req.courseId].status = "deleted"
             /\ \A c \in CourseIds \ {last'.req.courseId} : courses'[c] = courses[c]
             /\ subs' = subs
             /\ contents' = contents
             /\ nextSubId' = nextSubId
       /\ \A c \in CourseIds :
             (courses[c].status = "live" /\ courses'[c].status # "live") =>
                (last'.req.op = "deleteCourse" /\ last'.req.courseId = c
                   /\ last'.resp.status = 200)]_vars

\* C23 witness: the owner has deleted a course that a learner is subscribed
\* to and that has a content record; both documents are still there.
C23_Witness ==
    /\ Answered("deleteCourse")
    /\ last.resp.status = 200
    /\ courses[last.req.courseId].status = "deleted"
    /\ \E row \in subs : row.courseId = last.req.courseId
    /\ ContentOf(last.req.courseId) # {}

\* the outcomes of a subscribe that is refused
EnrollErrors ==
    {"ValidationError", "ForbiddenRole", "NotFound", "CourseUnavailable", "SelfEnrollment",
     "AlreadyEnrolled", "PromoRequired", "InvalidPromoCode"}

\* C24: a subscribe that is answered with an error leaves the Subscription
\* collection as it was; a subscribe answered 201 adds exactly one document,
\* of the caller and the course of the request, and leaves every other
\* document as it was; and the turn of a subscribe that ends at the insert
\* without an answer changes nothing either.
C24_EnrollFrame ==
    [][/\ (last'.req.op = "subscribe" /\ last'.resp.status # 201) =>
             /\ last'.resp.kind \in EnrollErrors
             /\ subs' = subs
             /\ nextSubId' = nextSubId
       /\ (last'.req.op = "subscribe" /\ last'.resp.status = 201) =>
             \E row \in subs' :
                /\ row \notin subs
                /\ subs' = subs \cup {row}
                /\ Cardinality(subs') = Cardinality(subs) + 1
                /\ row.userId = last'.req.user
                /\ row.courseId = last'.req.courseId
       /\ \A r \in Reqs :
             (pc[r] = "idle" /\ pc'[r] = "save") => subs' = subs
       /\ subs' \ subs # {} => (last'.req.op = "subscribe" /\ last'.resp.status = 201)]_vars

\* C24 witness: a subscribe has been answered 201 while the collection held
\* another learner's document, which is still there next to the new one.
C24_Witness ==
    /\ Answered("subscribe")
    /\ last.resp.status = 201
    /\ \E row \in subs : row.userId # last.req.user
    /\ Cardinality(RowsOf(last.req.user, last.req.courseId)) = 1

\* C24 witness of the error case: a subscribe has been answered
\* InvalidPromoCode while the collection holds a document.
C24_ErrorWitness ==
    /\ Answered("subscribe")
    /\ last.resp.kind = "InvalidPromoCode"
    /\ subs # {}

\* C25: in every reachable state, whatever the courses' prices are by now,
\* no Subscription document has pricePaid > 0 without a promo code, every
\* promo code stored is an upper-case key of the registry, and every document
\* without a promo code has pricePaid 0.
C25_PromoConsistent ==
    \A row \in subs :
        /\ row.pricePaid > 0 => row.promoCodeUsed.defined
        /\ row.promoCodeUsed.defined =>
              /\ HasPromo(row.promoCodeUsed.chars)
              /\ toUpperCase(row.promoCodeUsed.chars) = row.promoCodeUsed.chars
        /\ ~row.promoCodeUsed.defined => row.pricePaid = 0

\* C25 witness: the owner has changed the price since the learners
\* subscribed: a document paid with BFSALE25, sent as " bfsale25", belongs to
\* a course that is free by now, next to a document without a code.
C25_Witness ==
    /\ Answered("updateCourse")
    /\ last.resp.status = 200
    /\ \E row1 \in subs, row2 \in subs :
          /\ row1.courseId = last.req.courseId
          /\ row2.courseId = last.req.courseId
          /\ findById(row1.courseId).price = 0
          /\ row1.pricePaid = 500
          /\ row1.promoCodeUsed = Str(BFSALE25)
          /\ row2.pricePaid = 0
          /\ row2.promoCodeUsed = Null

\* C26: a Subscription document is inserted only while its course is there
\* and published, and with pricePaid calculated from the price the course
\* has at the time of the insert.
C26_InsertSeesCurrentCourse ==
    [][\A r \in Reqs :
          Inserts(r) =>
             LET course == findById(req[r].courseId) IN
             /\ course.status = "live"
             /\ course.isPublished
             /\ loc[r].price = course.price]_vars

\* C26 witness: a subscribe handler is suspended before its insert while the
\* course it read is no longer as it read it: deleted, unpublished, or at
\* another price.
C26_StaleRead ==
    \E r \in Reqs :
        /\ pc[r] = "save"
        /\ \/ findById(req[r].courseId).status # "live"
           \/ ~findById(req[r].courseId).isPublished
           \/ findById(req[r].courseId).price # loc[r].price

\* C27: the removal of a Subscription document is answered 200 to one
\* unsubscribe only: an unsubscribe is answered 200 in a step that removes
\* the document it names, and an unsubscribe whose document is gone by the
\* time of its delete is answered 404 NotFound.
C27_OneRemovalReported ==
    [][\A r \in Reqs :
          (pc[r] = "findByIdAndDelete" /\ pc'[r] = "idle") =>
             IF findSubById(req[r].subscriptionId).id # 0
             THEN last'.resp.status = 200 /\ subs' # subs
             ELSE last'.resp.status = 404 /\ last'.resp.kind = "NotFound"]_vars

\* C27 witness: two unsubscribe handlers of the same learner for the same
\* Subscription document have both passed their checks and are suspended
\* before their deletes.
C27_TwoInFlight ==
    \E r1 \in Reqs, r2 \in Reqs :
        /\ r1 # r2
        /\ pc[r1] = "findByIdAndDelete"
        /\ pc[r2] = "findByIdAndDelete"
        /\ req[r1].subscriptionId = req[r2].subscriptionId
        /\ req[r1].user = req[r2].user
        /\ findSubById(req[r1].subscriptionId).userId = req[r1].user

C29_OwnerNeverChanges ==
    [][\A c \in CourseIds :
          /\ (courses[c].status = "live" /\ courses'[c].status = "live") =>
                courses'[c].instructor = courses[c].instructor
          /\ (courses[c].status # "live" /\ courses'[c].status = "live") =>
                /\ courses[c].status = "none"
                /\ last'.req.op = "createCourse"
                /\ last'.resp.status = 201
                /\ courses'[c].instructor = last'.req.user]_vars

\* C29 witness: the owner has updated a course that has a subscriber and a
\* content record, and is still its instructor.
C29_Witness ==
    /\ Answered("updateCourse")
    /\ last.resp.status = 200
    /\ findById(last.req.courseId).instructor = last.req.user
    /\ ~findById(last.req.courseId).isPublished
    /\ \E row \in subs : row.courseId = last.req.courseId
    /\ ContentOf(last.req.courseId) # {}

\* the list read of caller u for course c is not refused on the database as
\* it is: the course is there, and u is its instructor or has a Subscription
\* document for it
ListAllowed(u, c) ==
    /\ findById(c).status = "live"
    /\ IsOwner(findById(c), u) \/ isUserSubscribed(u, c)

\* C30: the single-item read serves a content record only to a caller whom
\* the list read of the record's course would not refuse on the same
\* database, also after the course has been deleted: a caller refused the
\* list (403 or 404) is not sent an item of the course.
C30_ItemOnlyIfListAllowed ==
    [][\A r \in Reqs :
          (Decides(r) /\ req[r].op = "getContent" /\ last'.resp.status = 200) =>
             ListAllowed(req[r].user, loc[r].content.courseId)]_vars

\* C30 witness: a learner with a Subscription document has been sent a
\* content record of a course that is deleted, whose list is answered 404.
C30_Witness ==
    /\ Answered("getContent")
    /\ last.resp.status = 200
    /\ ~last.resp.isOwner
    /\ RowsOf(last.req.user, last.req.courseId) # {}
    /\ courses[last.req.courseId].status = "deleted"
    /\ ~ListAllowed(last.req.user, last.req.courseId)

====
